---- MODULE Spec2Model ----
(***************************************************************************)
(* The LiteLLM provider adapter: executeRequest of litellmProvider         *)
(* (src/unnamed/part_001).  One run of executeRequest is a state machine   *)
(* whose steps are the stretches of code between two awaits: the model     *)
(* calls (litellm.chat.completions.create), the tool invocations           *)
(* (executeTool) and the settle-all barrier (Promise.allSettled).          *)
(***************************************************************************)
EXTENDS Integers, Sequences, FiniteSets, TLC

(***************************************************************************)
(* Bounds.                                                                 *)
(***************************************************************************)
\* MAX_TOOL_ITERATIONS is imported from '@/providers' (part_001:6); its value
\* is not set in the modelled sources, the model is parametric in it.
MAX_TOOL_ITERATIONS == 2

(***************************************************************************)
(* Values.                                                                 *)
(***************************************************************************)
\* a field that is absent (undefined) in a JavaScript object
Missing == -1

NoUsage == [present |-> FALSE, prompt_tokens |-> Missing,
            completion_tokens |-> Missing, total_tokens |-> Missing]

\* the usage objects a response may carry (response.usage)
Usages ==
  { NoUsage,
    [present |-> TRUE, prompt_tokens |-> 2, completion_tokens |-> 1, total_tokens |-> 3],
    [present |-> TRUE, prompt_tokens |-> 1, completion_tokens |-> 1, total_tokens |-> Missing] }

\* tool_choice values of a payload
ChoiceUndefined == [kind |-> "undefined", name |-> ""]
ChoiceAuto      == [kind |-> "auto", name |-> ""]
ChoiceForce(t)  == [kind |-> "function", name |-> t]

\* typeof toolChoice === 'object'
IsObjectChoice(tc) == tc.kind = "function"

\* request.tools: tool definitions with their usage control
ToolDef(id, uc) == [id |-> id, usageControl |-> uc]

ToolConfigs ==
  { << >>,
    << ToolDef("a", "auto") >>,
    << ToolDef("a", "force"), ToolDef("b", "auto") >>,
    << ToolDef("a", "force"), ToolDef("b", "force") >>,
    << ToolDef("a", "none") >> }

\* the tool calls a model response may carry: name and whether the arguments
\* string is valid JSON
Call(n, ok) == [name |-> n, argsOk |-> ok]

BatchShapes ==
  { << >>,
    << Call("a", TRUE) >>,
    << Call("a", TRUE), Call("b", TRUE) >>,
    << Call("ghost", FALSE), Call("ghost", TRUE) >> }

\* what executeTool does once it settles: it returns a success ("ok"), returns
\* a failure {success: false, error} ("fail"), or throws ("throw"); tool a is
\* one that may throw, tool b one that may return a failure
ToolOutcomes(name) == IF name = "a" THEN {"ok", "throw"} ELSE {"ok", "fail"}

\* ---- helpers on sequences ----
Range(s) == { s[i] : i \in 1..Len(s) }

RECURSIVE SelectSeqBy(_, _)
\* Array.prototype.filter with the predicate given as a set of accepted values
SelectSeqBy(s, accepted) ==
  IF s = << >> THEN << >>
  ELSE IF Head(s) \in accepted
       THEN << Head(s) >> \o SelectSeqBy(Tail(s), accepted)
       ELSE SelectSeqBy(Tail(s), accepted)

RECURSIVE MapIds(_)
MapIds(tools) ==
  IF tools = << >> THEN << >> ELSE << Head(tools).id >> \o MapIds(Tail(tools))

(***************************************************************************)
(* Request preparation (part_001:101-176).                                 *)
(***************************************************************************)
Msg(role, content, tcs, tcid) ==
  [role |-> role, content |-> content, tool_calls |-> tcs, tool_call_id |-> tcid]

\* the mutant of AllMessages: the context is pushed before the system prompt
AllMessagesContextFirst(request) ==
  (IF request.context # "" THEN << Msg("user", request.context, << >>, Missing) >>
                              ELSE << >>)
  \o (IF request.systemPrompt # "" THEN << Msg("system", request.systemPrompt, << >>, Missing) >>
                                   ELSE << >>)
  \o request.messages

\* part_001:101-119: system prompt, then context, then the caller's messages
AllMessages(request) ==
  (IF request.systemPrompt # "" THEN << Msg("system", request.systemPrompt, << >>, Missing) >>
                                ELSE << >>)
  \o (IF request.context # "" THEN << Msg("user", request.context, << >>, Missing) >>
                              ELSE << >>)
  \o request.messages

\* part_001:121-130: tools is undefined (here: empty) when request.tools is empty
Tools(request) == MapIds(request.tools)

\* prepareToolsWithUsageControl of '@/providers/utils': the filtered tool
\* list, the resolved tool-choice directive and the forced tools
PrepareToolsWithUsageControl(reqTools) ==
  LET kept   == { reqTools[i].id : i \in { j \in 1..Len(reqTools) : reqTools[j].usageControl # "none" } }
      forced == { reqTools[i].id : i \in { j \in 1..Len(reqTools) : reqTools[j].usageControl = "force" } }
      filteredTools == SelectSeqBy(MapIds(reqTools), kept)
      forcedTools   == SelectSeqBy(MapIds(reqTools), forced)
  IN  IF filteredTools = << >>
      THEN [tools |-> << >>, toolChoice |-> ChoiceUndefined, forcedTools |-> << >>]
      ELSE [tools |-> filteredTools,
            toolChoice |-> IF forcedTools # << >> THEN ChoiceForce(forcedTools[1]) ELSE ChoiceAuto,
            forcedTools |-> forcedTools]

NoPreparedTools == [tools |-> << >>, toolChoice |-> ChoiceUndefined, forcedTools |-> << >>]

\* part_001:153-157: preparedTools stays null when there are no tools
PreparedTools(request) ==
  IF Len(Tools(request)) > 0 THEN PrepareToolsWithUsageControl(request.tools)
                             ELSE NoPreparedTools

\* part_001:160-163: tools are attached only if both the filtered list and
\* the tool choice exist
HasActiveTools(request) ==
  LET prepared == PreparedTools(request)
  IN  Len(Tools(request)) > 0 /\ Len(prepared.tools) > 0 /\ prepared.toolChoice # ChoiceUndefined

\* part_001:132-176: the tools and tool_choice of the payload
PayloadTools(request) ==
  IF HasActiveTools(request) THEN PreparedTools(request).tools ELSE << >>

PayloadToolChoice(request) ==
  IF HasActiveTools(request) THEN PreparedTools(request).toolChoice ELSE ChoiceUndefined

\* part_001:272
ForcedTools(request) == PreparedTools(request).forcedTools

\* the fast path taken only when the request has no tool definitions
UseFastPathNoDefinitions(request) ==
  request.stream /\ Len(Tools(request)) = 0

\* part_001:182: the streaming-without-tools fast path
UseFastPath(request) ==
  request.stream /\ (Len(Tools(request)) = 0 \/ ~HasActiveTools(request))

\* a call to litellm.chat.completions.create
ModelCall(stream, tools, choice, messages) ==
  [stream |-> stream, tools |-> tools, tool_choice |-> choice, messages |-> messages]

(***************************************************************************)
(* Forced-tool tracking (part_001:270-293, 457-470).                       *)
(***************************************************************************)
RECURSIVE CallNames(_)
\* the names of the tool calls of a response, in the order of the response
CallNames(tcs) ==
  IF tcs = << >> THEN << >> ELSE << Head(tcs).name >> \o CallNames(Tail(tcs))

\* trackForcedToolUsage of '@/providers/utils': the forced tools that appear
\* among the tool calls are appended to the used ones, and the flag tells
\* whether any forced tool was used in this response
TrackForcedToolUsage(toolCallsResponse, toolChoice, forcedTools, usedForcedTools) ==
  LET usedTools == SelectSeqBy(forcedTools, Range(CallNames(toolCallsResponse)))
  IN  [hasUsedForcedTool |-> usedTools # << >>,
       usedForcedTools   |-> usedForcedTools \o usedTools]

\* part_001:276-293: the tracker runs only for an object tool choice and a
\* response that has tool calls; otherwise both variables keep their values
CheckForForcedToolUsage(response, toolChoice, forcedTools, used, hasUsed) ==
  IF IsObjectChoice(toolChoice) /\ response.tool_calls # << >>
  THEN TrackForcedToolUsage(response.tool_calls, toolChoice, forcedTools, used)
  ELSE [hasUsedForcedTool |-> hasUsed, usedForcedTools |-> used]

\* the next forced tool taken from the forced tools without removing the used ones
NextToolChoiceUnfiltered(originalToolChoice, hasUsed, forcedTools, used) ==
  IF IsObjectChoice(originalToolChoice) /\ hasUsed /\ Len(forcedTools) > 0
  THEN ChoiceForce(forcedTools[1])
  ELSE originalToolChoice

\* part_001:452-470: the tool_choice of nextPayload
NextToolChoice(originalToolChoice, hasUsed, forcedTools, used) ==
  IF IsObjectChoice(originalToolChoice) /\ hasUsed /\ Len(forcedTools) > 0
  THEN LET remainingTools == SelectSeqBy(forcedTools, Range(forcedTools) \ Range(used))
       IN  IF Len(remainingTools) > 0 THEN ChoiceForce(remainingTools[1]) ELSE ChoiceAuto
  ELSE originalToolChoice

(***************************************************************************)
(* Token accounting (part_001:304-308, 498-502).                           *)
(***************************************************************************)
\* x || 0 on a token count
OrZero(x) == IF x = Missing \/ x = 0 THEN 0 ELSE x

\* part_001:304-308
InitialTokens(usage) ==
  IF usage.present
  THEN [input  |-> OrZero(usage.prompt_tokens),
        output |-> OrZero(usage.completion_tokens),
        total  |-> OrZero(usage.total_tokens)]
  ELSE [input |-> 0, output |-> 0, total |-> 0]

\* the usage of a loop response assigned instead of added
AccumulateTokensAssigned(tok, usage) ==
  IF usage.present
  THEN [input  |-> OrZero(usage.prompt_tokens),
        output |-> OrZero(usage.completion_tokens),
        total  |-> OrZero(usage.total_tokens)]
  ELSE tok

\* part_001:498-502
AccumulateTokens(tok, usage) ==
  IF usage.present
  THEN [input  |-> tok.input  + OrZero(usage.prompt_tokens),
        output |-> tok.output + OrZero(usage.completion_tokens),
        total  |-> tok.total  + OrZero(usage.total_tokens)]
  ELSE tok

(***************************************************************************)
(* The tool loop (part_001:329-505).                                       *)
(***************************************************************************)
\* the loop without its iteration cap
LoopGuardUncapped(ic) == TRUE

\* part_001:329: the guard of the while loop
LoopGuard(ic) == ic < MAX_TOOL_ITERATIONS

\* the loop without its break
NoToolCallsIgnored(response) == FALSE

\* part_001:337-340: the loop is left on a response without tool calls
NoToolCalls(response) == response.tool_calls = << >>

\* part_001:608 and 570
ReportedIterations(ic) == ic + 1

\* the value a tool promise resolves to (part_001:362-370, 375-387)
Settled(tc, toolParams, success, output, error, startTime, endTime) ==
  [toolCall |-> tc, status |-> "fulfilled", isNull |-> FALSE, toolName |-> tc.name,
   toolParams |-> toolParams, success |-> success, output |-> output, error |-> error,
   startTime |-> startTime, endTime |-> endTime, duration |-> endTime - startTime]

\* part_001:356: the promise of an unknown tool resolves to null
SettledNull(tc) ==
  [toolCall |-> tc, status |-> "fulfilled", isNull |-> TRUE, toolName |-> tc.name,
   toolParams |-> "", success |-> FALSE, output |-> "", error |-> "",
   startTime |-> 0, endTime |-> 0, duration |-> 0]

\* a promise whose executeTool call has not returned yet (part_001:359)
Pending(tc, startTime) ==
  [toolCall |-> tc, status |-> "pending", isNull |-> FALSE, toolName |-> tc.name,
   toolParams |-> "", success |-> FALSE, output |-> "", error |-> "",
   startTime |-> startTime, endTime |-> 0, duration |-> 0]

\* the mutant of DispatchOne: the tool is looked up before its arguments are parsed
DispatchOneLookupFirst(tc, request, t) ==
  IF tc.name \notin Range(MapIds(request.tools)) THEN SettledNull(tc)
  ELSE IF ~tc.argsOk THEN Settled(tc, "{}", FALSE, "", "SyntaxError", t, t)
  ELSE Pending(tc, t)

\* part_001:348-359: the synchronous part of one tool call: JSON.parse of the
\* arguments (a failure is caught, 371-388), then the lookup of the tool among
\* request.tools, then the call of executeTool; t is Date.now() (toolCallStartTime,
\* and toolCallEndTime of the catch)
DispatchOne(tc, request, t) ==
  IF ~tc.argsOk THEN Settled(tc, "{}", FALSE, "", "SyntaxError", t, t)
  ELSE IF tc.name \notin Range(MapIds(request.tools)) THEN SettledNull(tc)
  ELSE Pending(tc, t)

\* part_001:348-389: toolCallsInResponse.map(async ...) starts every tool call
DispatchAll(tcs, request, t) == [i \in 1..Len(tcs) |-> DispatchOne(tcs[i], request, t)]

\* the tool call without its try/catch: a throw rejects the promise
SettleOneUncaught(p, outcome, t) ==
  CASE outcome = "ok"    -> Settled(p.toolCall, "params", TRUE, "output", "", p.startTime, t)
    [] outcome = "fail"  -> Settled(p.toolCall, "params", FALSE, "", "tool error", p.startTime, t)
    [] outcome = "throw" -> [Settled(p.toolCall, "{}", FALSE, "", "thrown", p.startTime, t)
                               EXCEPT !.status = "rejected"]

\* part_001:359-388: executeTool returns or throws at time t (toolCallEndTime)
SettleOne(p, outcome, t) ==
  CASE outcome = "ok"    -> Settled(p.toolCall, "params", TRUE, "output", "", p.startTime, t)
    [] outcome = "fail"  -> Settled(p.toolCall, "params", FALSE, "", "tool error", p.startTime, t)
    [] outcome = "throw" -> Settled(p.toolCall, "{}", FALSE, "", "thrown", p.startTime, t)

\* the sum of the durations of the tool calls of a batch that left a segment
RECURSIVE SumOfToolDurations(_)
SumOfToolDurations(results) ==
  IF results = << >> THEN 0
  ELSE (IF Head(results).status = "rejected" \/ Head(results).isNull THEN 0
        ELSE Head(results).duration) + SumOfToolDurations(Tail(results))

\* the mutant of ThisToolsTime: the durations of the tool calls added up
ThisToolsTimeSummed(start, t, results) == SumOfToolDurations(results)

\* part_001:449: thisToolsTime = Date.now() - toolsStartTime, taken after the
\* results of the batch were processed
ThisToolsTime(start, t, results) == t - start

\* a barrier that resolves with the first promise that settles
AnySettled(ps) == \E i \in 1..Len(ps) : ps[i].status # "pending"

\* part_001:391: Promise.allSettled resolves once every promise has settled
AllSettled(ps) == \A i \in 1..Len(ps) : ps[i].status # "pending"

\* the results visited in the order in which the promises settled
ExecutionResultsBySettle(ps, order) == [k \in 1..Len(order) |-> ps[order[k]]]

\* part_001:391, 406: Promise.allSettled keeps the order of the promises it was
\* given, whatever the order in which they settled
ExecutionResults(ps, order) == ps

\* part_001:420-430
ResultContent(v) ==
  IF v.success
  THEN [error |-> FALSE, message |-> "", tool |-> "", output |-> v.output]
  ELSE [error |-> TRUE,
        message |-> IF v.error # "" THEN v.error ELSE "Tool execution failed",
        tool |-> v.toolName, output |-> ""]

\* part_001:317-325, 412-418, 481-487: a TimeSegment
Segment(type, name, startTime, endTime, duration) ==
  [type |-> type, name |-> name, startTime |-> startTime, endTime |-> endTime,
   duration |-> duration]

\* part_001:407: rejected and null results are skipped
Skipped(v) == v.status = "rejected" \/ v.isNull

RECURSIVE ProcessResults(_, _)
\* part_001:406-447: the loop over the settled results, on the accumulators
\* acc = [timeSegments, toolResults, toolCalls, currentMessages]
ProcessResults(results, acc) ==
  IF results = << >> THEN acc
  ELSE LET v == Head(results)
           rc == ResultContent(v)
       IN  IF Skipped(v) THEN ProcessResults(Tail(results), acc)
           ELSE ProcessResults(Tail(results),
                  [timeSegments    |-> Append(acc.timeSegments,
                                         Segment("tool", v.toolName, v.startTime, v.endTime,
                                                 v.duration)),
                   toolResults     |-> IF v.success THEN Append(acc.toolResults, v.output)
                                                    ELSE acc.toolResults,
                   toolCalls       |-> Append(acc.toolCalls,
                                         [name |-> v.toolName, arguments |-> v.toolParams,
                                          startTime |-> v.startTime, endTime |-> v.endTime,
                                          duration |-> v.duration,
                                          result |-> rc, success |-> v.success]),
                   currentMessages |-> Append(acc.currentMessages,
                                         Msg("tool", ToString(rc), << >>, v.toolCall.id))])

\* part_001:393-404: the assistant message that lists the tool calls
AssistantMessage(tcs) == Msg("assistant", "null", tcs, Missing)

\* the mutant of HistoryArray: the loop pushes to the caller's array
HistoryArrayShared(req) == "request.messages"

\* part_001:101, 117-119, 311: the array the loop pushes to is currentMessages,
\* a spread copy of allMessages, which is itself a new array that
\* request.messages was spread into
HistoryArray(req) == "currentMessages"

\* part_001:393-404, 442-446: what the pushes of a pass, which leave the array
\* with the elements msgs, do to the request: nothing unless the array is the
\* caller's
PushedThrough(req, array, msgs) ==
  IF array = "request.messages" THEN [req EXCEPT !.messages = msgs] ELSE req

\* the time up to which the clock of a timed run advances
MaxTime == 2

\* the content chunks a stream delivers at most
MaxChunks == 1

\* the calls of initialize in one process
MaxInits == 2

(***************************************************************************)
(* Telemetry: cost, the results executeRequest builds, and the completion  *)
(* callbacks of the two streaming paths.                                   *)
(***************************************************************************)
ZeroTokens == [input |-> 0, output |-> 0, total |-> 0]
ZeroCost == [input |-> 0, output |-> 0, total |-> 0]

\* calculateCost of '@/providers/utils' (not in this source tree): the cost
\* breakdown of (model, input tokens, output tokens), a price per token
CalculateCost(model, input, output) ==
  LET priceIn  == IF model = "litellm/gpt-4" THEN 3 ELSE 1
      priceOut == IF model = "litellm/gpt-4" THEN 6 ELSE 2
  IN  [input |-> priceIn * input, output |-> priceOut * output,
       total |-> priceIn * input + priceOut * output]

AddCost(c1, c2) ==
  [input |-> c1.input + c2.input, output |-> c1.output + c2.output,
   total |-> c1.total + c2.total]

\* an absent string
Undefined == "undefined"

\* the shape shared by everything executeRequest returns or throws; fields
\* names the fields the value has, the others hold a placeholder
NoResult ==
  [kind |-> "none", fields |-> {}, content |-> "", tokens |-> ZeroTokens, cost |-> ZeroCost,
   toolCalls |-> << >>, toolResults |-> << >>,
   iterations |-> Missing, timeSegments |-> << >>,
   startTime |-> Missing, endTime |-> Missing, duration |-> Missing,
   modelTime |-> Missing, toolsTime |-> Missing, firstResponseTime |-> Missing,
   message |-> Undefined, litellmErrorType |-> Undefined, litellmErrorCode |-> Missing]

\* the mutant of BaseUrlMissing: the base URL is not looked at
BaseUrlMissingIgnored(req) == FALSE

\* part_001:90-91: !baseUrl, for the base URL of the request or, without one,
\* of the environment (the runs modelled leave request.azureEndpoint unset)
BaseUrlMissing(req) == ~req.hasBaseUrl

\* part_001:90-93: the failure thrown when no base URL is configured
ConfigError ==
  [NoResult EXCEPT !.kind = "configError", !.fields = {"message"},
                   !.message = "LITELLM_BASE_URL is required for LiteLLM provider"]

\* part_001:233-262: the ExecutionResult of the fast-path handle when it is
\* returned at time t
FastPathExecution(providerStartTime, t) ==
  [NoResult EXCEPT !.kind = "handle", !.content = "", !.tokens = ZeroTokens,
                   !.cost = ZeroCost,
                   !.fields = {"content", "tokens", "cost", "startTime", "endTime",
                               "duration", "timeSegments"},
                   !.startTime = providerStartTime, !.endTime = t,
                   !.duration = t - providerStartTime,
                   !.timeSegments = << Segment("model", "Streaming response",
                                               providerStartTime, t, t - providerStartTime) >>]

\* part_001:193-232: the completion callback of the fast path, run at time t
FastPathOnComplete(execution, model, content, usage, providerStartTime, t) ==
  [execution EXCEPT
     !.content = content,
     !.tokens = [input |-> usage.prompt_tokens, output |-> usage.completion_tokens,
                 total |-> usage.total_tokens],
     !.cost = CalculateCost(model, usage.prompt_tokens, usage.completion_tokens),
     !.endTime = t,
     !.duration = t - providerStartTime,
     !.timeSegments = IF Len(execution.timeSegments) > 0
                      THEN [execution.timeSegments EXCEPT
                              ![1].endTime = t, ![1].duration = t - providerStartTime]
                      ELSE execution.timeSegments]

\* part_001:510, 546-582: the ExecutionResult of the handle returned after
\* the tool loop at time t
AfterLoopExecution(model, toks, tcs, ic, segs, providerStartTime, t, mt, tt, frt) ==
  [NoResult EXCEPT !.kind = "handle", !.content = "", !.tokens = toks,
                   !.cost = CalculateCost(model, toks.input, toks.output),
                   !.fields = {"content", "tokens", "cost", "toolCalls", "startTime",
                               "endTime", "duration", "modelTime", "toolsTime",
                               "firstResponseTime", "iterations", "timeSegments"},
                   !.toolCalls = tcs,
                   !.iterations = ReportedIterations(ic), !.timeSegments = segs,
                   !.startTime = providerStartTime, !.endTime = t,
                   !.duration = t - providerStartTime,
                   !.modelTime = mt, !.toolsTime = tt, !.firstResponseTime = frt]

\* the mutant of AfterLoopOnComplete: the stream's usage replaces the loop's
AfterLoopOnCompleteAssigned(execution, model, toks, content, usage) ==
  [execution EXCEPT
     !.content = content,
     !.tokens = [input |-> usage.prompt_tokens, output |-> usage.completion_tokens,
                 total |-> usage.total_tokens],
     !.cost = CalculateCost(model, usage.prompt_tokens, usage.completion_tokens)]

\* part_001:510, 522-545: the completion callback of the stream after the
\* tool loop; toks are the tokens of the loop
AfterLoopOnComplete(execution, model, toks, content, usage) ==
  [execution EXCEPT
     !.content = content,
     !.tokens = [input |-> toks.input + usage.prompt_tokens,
                 output |-> toks.output + usage.completion_tokens,
                 total |-> toks.total + usage.total_tokens],
     !.cost = AddCost(CalculateCost(model, toks.input, toks.output),
                      CalculateCost(model, usage.prompt_tokens, usage.completion_tokens))]

\* part_001:591-611: the buffered result, built at time t
BufferedResult(toks, tcs, trs, ic, segs, providerStartTime, t, mt, tt, frt) ==
  [NoResult EXCEPT !.kind = "buffered", !.tokens = toks, !.toolCalls = tcs,
                   !.fields = {"content", "tokens", "toolCalls", "toolResults",
                               "startTime", "endTime", "duration", "modelTime",
                               "toolsTime", "firstResponseTime", "iterations",
                               "timeSegments"},
                   !.toolResults = trs,
                   !.iterations = ReportedIterations(ic), !.timeSegments = segs,
                   !.startTime = providerStartTime, !.endTime = t,
                   !.duration = t - providerStartTime,
                   !.modelTime = mt, !.toolsTime = tt, !.firstResponseTime = frt]

\* what a failed model call throws: an Error with a message and, when the
\* endpoint answered, the body of the answer under .error
PlainFailure == [message |-> "socket hang up", hasError |-> FALSE,
                 error |-> [message |-> Undefined, type |-> Undefined, code |-> Missing]]
StructuredFailure == [message |-> "429 status", hasError |-> TRUE,
                      error |-> [message |-> "rate limited", type |-> "rate_limit",
                                 code |-> 429]]
PartialFailure == [message |-> "400 status", hasError |-> TRUE,
                   error |-> [message |-> Undefined, type |-> "invalid_request",
                              code |-> Missing]]
NoFailure == [message |-> Undefined, hasError |-> FALSE,
              error |-> [message |-> Undefined, type |-> Undefined, code |-> Missing]]
Failures == {PlainFailure, StructuredFailure, PartialFailure}

\* a string is falsy when it is undefined or '', a number when undefined or 0
FalsyString(v) == v \in {Undefined, ""}
FalsyNumber(v) == v \in {Missing, 0}

\* the mutant of EnhancedError: the structured fields are not extracted
EnhancedErrorPlain(failure, providerStartTime, t) ==
  [NoResult EXCEPT !.kind = "error",
                   !.fields = {"message", "startTime", "endTime", "duration"},
                   !.message = failure.message,
                   !.startTime = providerStartTime, !.endTime = t,
                   !.duration = t - providerStartTime]

\* part_001:612-653: the failure rethrown by the catch block at time t
EnhancedError(failure, providerStartTime, t) ==
  LET structured == failure.hasError
      errorMessage == IF structured /\ ~FalsyString(failure.error.message)
                      THEN failure.error.message ELSE failure.message
      errorType == IF structured THEN failure.error.type ELSE Undefined
      errorCode == IF structured THEN failure.error.code ELSE Missing
  IN  [NoResult EXCEPT !.kind = "error",
                       !.fields = {"message", "startTime", "endTime", "duration"}
                                    \cup (IF FalsyString(errorType) THEN {}
                                          ELSE {"litellmErrorType"})
                                    \cup (IF FalsyNumber(errorCode) THEN {}
                                          ELSE {"litellmErrorCode"}),
                       !.message = errorMessage,
                       !.startTime = providerStartTime, !.endTime = t,
                       !.duration = t - providerStartTime,
                       !.litellmErrorType = IF FalsyString(errorType) THEN Undefined ELSE errorType,
                       !.litellmErrorCode = IF FalsyNumber(errorCode) THEN Missing ELSE errorCode]


(***************************************************************************)
(* The stream normalizer (createReadableStreamFromLiteLLMStream is not in  *)
(* this source tree): a lazy sequence of content chunks that invokes the   *)
(* completion callback, with the concatenated content and the final usage, *)
(* when the stream has no more events.                                     *)
(***************************************************************************)
OpenStream(path) ==
  [open |-> TRUE, ended |-> FALSE, content |-> "", chunks |-> 0, callbacks |-> 0,
   path |-> path, usage |-> NoUsage]

CanRead(st) == st.open /\ ~st.ended /\ st.chunks < MaxChunks

ReadChunk(st, chunk) == [st EXCEPT !.content = st.content \o chunk, !.chunks = st.chunks + 1]

\* the callback runs when the stream ends, whatever was read before
CallbackDue(st) == st.open /\ ~st.ended

EndStream(st, usage) ==
  [st EXCEPT !.ended = TRUE, !.callbacks = st.callbacks + 1, !.usage = usage]

(***************************************************************************)
(* Model discovery: what the listing endpoint answers, and the pure parts  *)
(* of initialize and of the GET /models route.                             *)
(***************************************************************************)
\* env.LITELLM_BASE_URL set or not, typeof window, and the blacklist that
\* isProviderBlacklisted and filterBlacklistedModels read
Envs ==
  [ baseUrl : BOOLEAN, clientSide : BOOLEAN, providerBlacklisted : BOOLEAN,
    blacklist : {{}, {"litellm/m1"}} ]

DefaultEnv ==
  [baseUrl |-> TRUE, clientSide |-> FALSE, providerBlacklisted |-> FALSE, blacklist |-> {}]

\* fetch rejects, or resolves to a response with a status and a body: not
\* JSON, JSON without a data array, or a listing of model ids
Upstream(fetch, status, body, ids) ==
  [fetch |-> fetch, status |-> status, body |-> body, ids |-> ids]

NoUpstream == Upstream("none", 0, "none", << >>)

Upstreams ==
  { Upstream("reject", 0, "none", << >>), Upstream("response", 503, "none", << >>),
    Upstream("response", 200, "notJson", << >>), Upstream("response", 200, "noData", << >>) }
  \cup { Upstream("response", 200, "list", ids) : ids \in {<< >>, << "m1" >>, << "m1", "m2" >>} }

\* response.ok
Ok(up) == up.status \in 200..299

\* part_001:63-64, part_000:50-51: response.json() and data.data.map throw
\* unless the body is a listing
ParseThrows(up) == up.body # "list"

\* the mutant of Prefixed: the upstream ids as they are
PrefixedNot(ids) == ids

\* part_001:64, part_000:51: data.data.map((model) => `litellm/${model.id}`)
Prefixed(ids) == [i \in DOMAIN ids |-> "litellm/" \o ids[i]]

\* filterBlacklistedModels of '@/providers/utils' (not in this source tree):
\* the models that are not blacklisted, in their order
FilterBlacklistedModels(ms, blacklist) == SelectSeq(ms, LAMBDA m : m \notin blacklist)

\* part_000:14, 21, 47, 60, 67: NextResponse.json({ models })
JsonResponse(ms) == [kind |-> "json", status |-> 200, models |-> ms]

NoRouteResponse == [kind |-> "none", status |-> 0, models |-> << >>]

\* part_001:70-74: the catch block of initialize logs a warning; the store is
\* left as it is
InitializeOnFailure(st) == st

(***************************************************************************)
(* State: one run of executeRequest, of initialize (possibly repeated) or  *)
(* of the GET /models route.                                               *)
(***************************************************************************)
VARIABLES
  request,            \* the ProviderRequest (plus whether a base URL is configured)
  pc,                 \* the await the run is suspended at, or how it ended
  currentResponse,    \* part_001:295, 474: the part read after the receiving step
  tokens,             \* part_001:304
  toolCalls,          \* part_001:309
  toolResults,        \* part_001:310
  currentMessages,    \* part_001:311
  iterationCount,     \* part_001:312
  timeSegments,       \* part_001:317
  usedForcedTools,    \* part_001:273
  hasUsedForcedTool,  \* part_001:274
  promises,           \* toolExecutionPromises of the current pass, part_001:348
  result,             \* what executeRequest returned or threw
  modelCalls,         \* history: every call of litellm.chat.completions.create
  responses,          \* history: the tool calls of every response received
  usageTotal,         \* history: the usage reported by the responses, summed
  settleOrder,        \* history: the order in which the promises of the pass settled
  dispatched,         \* history: the ids of the tool calls whose async function was started
  batches,            \* history: the number of tool batches (Promise.allSettled) awaited
  steps,              \* history: the number of steps taken by the run
  now,                \* Date.now()
  horizon,            \* the clock stops advancing at this time
  endpoint,           \* what the model endpoint may answer in this run
  thrown,             \* history: what the failing model call threw
  providerStartTime,  \* part_001:178
  firstResponseTime,  \* part_001:296
  modelTime,          \* part_001:314
  toolsTime,          \* part_001:315
  toolsStartTime,     \* part_001:346
  nextModelStartTime, \* part_001:472
  stream,             \* the stream of the handle: chunks read, ended, callback runs
  op,                 \* which operation of the provider this behaviour runs
  env,                \* the configuration the discovery operations read
  dpc,                \* where the discovery operation is
  upstream,           \* what the model-listing endpoint answers
  store,              \* useProvidersStore: the models published for 'litellm'
  models,             \* litellmProvider.models, part_001:66
  inits,              \* the number of calls of initialize started
  routeResponse       \* what the GET route answered

execVars == << request, pc, currentResponse, tokens, toolCalls, toolResults,
               currentMessages, iterationCount, timeSegments, usedForcedTools,
               hasUsedForcedTool, promises, result, modelCalls, responses, usageTotal,
               settleOrder, dispatched, batches, steps, now, providerStartTime,
               firstResponseTime, modelTime, toolsTime, toolsStartTime,
               nextModelStartTime, stream >>

discVars == << env, dpc, upstream, store, models, inits, routeResponse >>

vars == << execVars, discVars, op, horizon, endpoint, thrown >>

NoResponse == [tool_calls |-> << >>]
NoStream == [open |-> FALSE, ended |-> FALSE, content |-> "", chunks |-> 0,
             callbacks |-> 0, path |-> "none", usage |-> NoUsage]

Models == {"litellm/gpt-4"}

Requests ==
  [ hasBaseUrl : BOOLEAN, stream : BOOLEAN, tools : ToolConfigs, model : Models,
    systemPrompt : {"sys"}, context : {""},
    messages : { << Msg("user", "hi", << >>, Missing) >> } ]

\* the caller's messages of the runs whose clock advances: a conversation of
\* two messages
Conversation ==
  << Msg("user", "hi", << >>, Missing), Msg("assistant", "hello", << >>, Missing) >>

\* the requests of the runs whose clock advances: one tool at most, with or
\* without a system prompt and a context, and one buffered request with two
\* tools, which a response may call in one batch
TimedRequests ==
  { [r EXCEPT !.systemPrompt = sp, !.context = cx, !.messages = Conversation] :
      r \in { q \in Requests : q.hasBaseUrl /\ q.tools \in {<< >>, << ToolDef("a", "auto") >>} },
      sp \in {"", "sys"}, cx \in {"", "ctx"} }
  \cup { [r EXCEPT !.messages = Conversation] :
          r \in { q \in Requests : /\ q.hasBaseUrl /\ ~q.stream /\ q.model = "litellm/gpt-4"
                                    /\ q.tools = << ToolDef("a", "force"), ToolDef("b", "auto") >> } }

DefaultRequest ==
  [hasBaseUrl |-> TRUE, stream |-> FALSE, tools |-> << >>, model |-> "litellm/gpt-4",
   systemPrompt |-> "sys", context |-> "",
   messages |-> << Msg("user", "hi", << >>, Missing) >>]

\* the responses the endpoint may give to the n-th non-streaming call; the
\* ids of its tool calls are unique in the run
RECURSIVE WithIds(_, _)
WithIds(shape, first) ==
  IF shape = << >> THEN << >>
  ELSE << [id |-> first, name |-> Head(shape).name, argsOk |-> Head(shape).argsOk] >>
       \o WithIds(Tail(shape), first + 1)

ResponsesTo(n) ==
  { [tool_calls |-> WithIds(shape, 10 * n + 1), usage |-> u] :
      shape \in endpoint.shapes, u \in endpoint.usages }

\* the final usage objects a stream may report (stream_options.include_usage)
StreamUsages == { u \in Usages : u.present /\ u.total_tokens # Missing }

\* the tokens a usage object reports, an absent usage or field counting as zero
Reported(sum, usage) ==
  [input  |-> sum.input  + (IF usage.present /\ usage.prompt_tokens # Missing
                            THEN usage.prompt_tokens ELSE 0),
   output |-> sum.output + (IF usage.present /\ usage.completion_tokens # Missing
                            THEN usage.completion_tokens ELSE 0),
   total  |-> sum.total  + (IF usage.present /\ usage.total_tokens # Missing
                            THEN usage.total_tokens ELSE 0)]

\* the delays an await may take before its continuation runs
Delays == { d \in 0..1 : now + d <= horizon }

InitRun ==
  /\ pc = "start"
  /\ currentResponse = NoResponse
  /\ tokens = ZeroTokens
  /\ toolCalls = << >>
  /\ toolResults = << >>
  /\ currentMessages = << >>
  /\ iterationCount = 0
  /\ timeSegments = << >>
  /\ usedForcedTools = << >>
  /\ hasUsedForcedTool = FALSE
  /\ promises = << >>
  /\ result = NoResult
  /\ modelCalls = << >>
  /\ responses = << >>
  /\ usageTotal = ZeroTokens
  /\ settleOrder = << >>
  /\ dispatched = {}
  /\ batches = 0
  /\ steps = 0
  /\ now = 0
  /\ providerStartTime = 0
  /\ firstResponseTime = 0
  /\ modelTime = 0
  /\ toolsTime = 0
  /\ toolsStartTime = 0
  /\ nextModelStartTime = 0
  /\ stream = NoStream
  /\ dpc = "idle"
  /\ upstream = NoUpstream
  /\ store = << >>
  /\ models = << >>
  /\ inits = 0
  /\ routeResponse = NoRouteResponse
  /\ thrown = NoFailure

\* the endpoints of the runs: every batch shape and usage with one kind of
\* failure, or every kind of failure with fewer shapes and usages
WideEndpoint ==
  [shapes |-> BatchShapes, usages |-> Usages, failures |-> {PlainFailure},
   streamUsages |-> StreamUsages]
NarrowEndpoint ==
  [shapes |-> { shape \in BatchShapes : Len(shape) <= 1 },
   usages |-> { u \in Usages : u.present }, failures |-> Failures,
   streamUsages |-> StreamUsages]
\* an endpoint whose responses call two tools at once or none
PairEndpoint ==
  [shapes |-> { shape \in BatchShapes : shape = << >> \/ (Len(shape) = 2 /\ shape[1].argsOk) },
   usages |-> StreamUsages, failures |-> {PlainFailure},
   streamUsages |-> StreamUsages]

Init ==
  /\ InitRun
  /\ horizon = 0
  /\ endpoint = WideEndpoint
  /\ op \in {"executeRequest", "initialize", "GET"}
  /\ IF op = "executeRequest"
     THEN request \in Requests /\ env = [DefaultEnv EXCEPT !.baseUrl = request.hasBaseUrl]
     ELSE request = DefaultRequest /\ env \in Envs

\* the runs under a clock that advances up to MaxTime
InitTimed ==
  /\ InitRun
  /\ horizon = MaxTime
  /\ op \in {"executeRequest", "initialize", "GET"}
  /\ IF op = "executeRequest"
     THEN request \in TimedRequests /\ env = DefaultEnv
     ELSE request = DefaultRequest /\ env \in Envs
  /\ endpoint = IF Len(request.tools) = 2 THEN PairEndpoint ELSE NarrowEndpoint

\* part_001:90-93, 178-190, 268-295: the synchronous prefix of executeRequest
\* up to its first model call
Begin ==
  /\ op = "executeRequest"
  /\ pc = "start"
  /\ steps' = steps + 1
  /\ providerStartTime' = now
  /\ IF BaseUrlMissing(request)
     THEN /\ pc' = "thrown"
          /\ result' = ConfigError
          /\ UNCHANGED modelCalls
     ELSE /\ modelCalls' = << ModelCall(UseFastPath(request), PayloadTools(request),
                                        PayloadToolChoice(request), AllMessages(request)) >>
          /\ pc' = IF UseFastPath(request) THEN "awaitFastStream" ELSE "awaitInitial"
          /\ UNCHANGED result
  /\ UNCHANGED << request, currentResponse, tokens, toolCalls, toolResults, currentMessages,
                  iterationCount, timeSegments, usedForcedTools, hasUsedForcedTool,
                  promises, responses, usageTotal, settleOrder, dispatched, batches,
                  now, firstResponseTime, modelTime, toolsTime, toolsStartTime,
                  nextModelStartTime, stream, discVars, op, horizon, endpoint, thrown >>

\* part_001:190-265: the streaming call of the fast path returned after d; the
\* StreamingHandle is built and returned
FastStreamOpens(d) ==
  /\ pc = "awaitFastStream"
  /\ pc' = "handle"
  /\ steps' = steps + 1
  /\ now' = now + d
  /\ result' = FastPathExecution(providerStartTime, now + d)
  /\ stream' = OpenStream("fast")
  /\ UNCHANGED << request, currentResponse, tokens, toolCalls, toolResults, currentMessages,
                  iterationCount, timeSegments, usedForcedTools, hasUsedForcedTool,
                  promises, modelCalls, responses, usageTotal, settleOrder, dispatched,
                  batches, providerStartTime, firstResponseTime, modelTime, toolsTime,
                  toolsStartTime, nextModelStartTime, discVars, op, horizon, endpoint, thrown >>

\* part_001:612-653: a model call threw after d; the failure is enhanced and
\* rethrown
ModelCallFails(failure, d) ==
  /\ pc \in {"awaitFastStream", "awaitInitial", "awaitLoop", "awaitFinalStream"}
  /\ pc' = "failed"
  /\ steps' = steps + 1
  /\ now' = now + d
  /\ result' = EnhancedError(failure, providerStartTime, now + d)
  /\ thrown' = failure
  /\ UNCHANGED << request, currentResponse, tokens, toolCalls, toolResults, currentMessages,
                  iterationCount, timeSegments, usedForcedTools, hasUsedForcedTool,
                  promises, modelCalls, responses, usageTotal, settleOrder, dispatched,
                  batches, providerStartTime, firstResponseTime, modelTime, toolsTime,
                  toolsStartTime, nextModelStartTime, stream, discVars, op, horizon, endpoint >>

\* part_001:329-346 and 507-611: the head of the while loop at time t on the
\* state (ic, resp, msgs, toks, segs, mt, frt) reached after a response, and
\* what follows the loop when it is left
LoopHead(ic, resp, msgs, toks, segs, t, mt, frt) ==
  IF LoopGuard(ic) /\ ~NoToolCalls(resp)
  THEN /\ promises' = DispatchAll(resp.tool_calls, request, t)
       /\ settleOrder' = SelectSeqBy([i \in 1..Len(resp.tool_calls) |-> i],
                           { i \in 1..Len(resp.tool_calls) :
                               DispatchAll(resp.tool_calls, request, t)[i].status # "pending" })
       /\ dispatched' = dispatched \cup { resp.tool_calls[i].id : i \in 1..Len(resp.tool_calls) }
       /\ toolsStartTime' = t
       /\ pc' = "awaitTools"
       /\ UNCHANGED << modelCalls, result >>
  ELSE /\ promises' = << >>
       /\ settleOrder' = << >>
       /\ UNCHANGED << dispatched, toolsStartTime >>
       /\ IF request.stream
          THEN /\ modelCalls' = Append(modelCalls,
                                  ModelCall(TRUE, PayloadTools(request), ChoiceAuto, msgs))
               /\ pc' = "awaitFinalStream"
               /\ UNCHANGED result
          ELSE /\ pc' = "done"
               /\ result' = BufferedResult(toks, toolCalls, toolResults, ic, segs,
                                           providerStartTime, t, mt, toolsTime, frt)
               /\ UNCHANGED modelCalls

\* part_001:295-346: the first response arrives after d
InitialResponse(resp, d) ==
  /\ pc = "awaitInitial"
  /\ steps' = steps + 1
  /\ now' = now + d
  /\ currentResponse' = [tool_calls |-> resp.tool_calls]
  /\ responses' = Append(responses, resp.tool_calls)
  /\ usageTotal' = Reported(usageTotal, resp.usage)
  /\ tokens' = InitialTokens(resp.usage)
  /\ currentMessages' = AllMessages(request)
  /\ iterationCount' = 0
  /\ firstResponseTime' = now + d - providerStartTime
  /\ modelTime' = now + d - providerStartTime
  /\ LET frt == now + d - providerStartTime
         segs == << Segment("model", "Initial response", providerStartTime,
                            providerStartTime + frt, frt) >>
         chk == CheckForForcedToolUsage(resp, PayloadToolChoice(request),
                                        ForcedTools(request), << >>, FALSE)
     IN  /\ timeSegments' = segs
         /\ usedForcedTools' = chk.usedForcedTools
         /\ hasUsedForcedTool' = chk.hasUsedForcedTool
         /\ LoopHead(0, resp, AllMessages(request), InitialTokens(resp.usage), segs,
                     now + d, frt, frt)
  /\ UNCHANGED << request, toolCalls, toolResults, batches, providerStartTime, toolsTime,
                  nextModelStartTime, stream, discVars, op, horizon, endpoint, thrown >>

\* part_001:359-388: executeTool of one pending tool call returns or throws
\* after d
ToolSettles(i, outcome, d) ==
  /\ pc = "awaitTools"
  /\ i \in 1..Len(promises)
  /\ promises[i].status = "pending"
  /\ steps' = steps + 1
  /\ now' = now + d
  /\ promises' = [promises EXCEPT ![i] = SettleOne(promises[i], outcome, now + d)]
  /\ settleOrder' = Append(settleOrder, i)
  /\ UNCHANGED << request, pc, currentResponse, tokens, toolCalls, toolResults,
                  currentMessages, iterationCount, timeSegments, usedForcedTools,
                  hasUsedForcedTool, result, modelCalls, responses, usageTotal, dispatched,
                  batches, providerStartTime, firstResponseTime, modelTime, toolsTime,
                  toolsStartTime, nextModelStartTime, stream, discVars, op, horizon, endpoint, thrown >>

\* part_001:391-474: Promise.allSettled resolves; the results are recorded,
\* the next payload is built and the next model call is issued
Join ==
  /\ pc = "awaitTools"
  /\ AllSettled(promises)
  /\ steps' = steps + 1
  /\ batches' = batches + 1
  /\ toolsTime' = toolsTime + ThisToolsTime(toolsStartTime, now, promises)
  /\ nextModelStartTime' = now
  /\ LET acc == ProcessResults(ExecutionResults(promises, settleOrder),
                  [timeSegments |-> timeSegments, toolResults |-> toolResults,
                   toolCalls |-> toolCalls,
                   currentMessages |-> Append(currentMessages,
                                         AssistantMessage(currentResponse.tool_calls))])
         choice == NextToolChoice(PayloadToolChoice(request), hasUsedForcedTool,
                                  ForcedTools(request), usedForcedTools)
     IN  /\ timeSegments' = acc.timeSegments
         /\ toolResults' = acc.toolResults
         /\ toolCalls' = acc.toolCalls
         /\ currentMessages' = acc.currentMessages
         /\ request' = PushedThrough(request, HistoryArray(request), acc.currentMessages)
         /\ modelCalls' = Append(modelCalls,
                            ModelCall(FALSE, PayloadTools(request), choice, acc.currentMessages))
  /\ pc' = "awaitLoop"
  /\ UNCHANGED << currentResponse, tokens, iterationCount, usedForcedTools,
                  hasUsedForcedTool, promises, result, responses, usageTotal, settleOrder,
                  dispatched, now, providerStartTime, firstResponseTime, modelTime,
                  toolsStartTime, stream, discVars, op, horizon, endpoint, thrown >>

\* part_001:474-505 and the next loop head: the response of a loop call
\* arrives after d
LoopResponse(resp, d) ==
  /\ pc = "awaitLoop"
  /\ steps' = steps + 1
  /\ now' = now + d
  /\ currentResponse' = [tool_calls |-> resp.tool_calls]
  /\ responses' = Append(responses, resp.tool_calls)
  /\ usageTotal' = Reported(usageTotal, resp.usage)
  /\ tokens' = AccumulateTokens(tokens, resp.usage)
  /\ iterationCount' = iterationCount + 1
  /\ modelTime' = modelTime + (now + d - nextModelStartTime)
  /\ LET chk == CheckForForcedToolUsage(resp, modelCalls[Len(modelCalls)].tool_choice,
                                        ForcedTools(request), usedForcedTools,
                                        hasUsedForcedTool)
         segs == Append(timeSegments,
                        Segment("model", "Model response", nextModelStartTime, now + d,
                                now + d - nextModelStartTime))
     IN  /\ usedForcedTools' = chk.usedForcedTools
         /\ hasUsedForcedTool' = chk.hasUsedForcedTool
         /\ timeSegments' = segs
         /\ LoopHead(iterationCount + 1, resp, currentMessages,
                     AccumulateTokens(tokens, resp.usage), segs, now + d,
                     modelTime + (now + d - nextModelStartTime), firstResponseTime)
  /\ UNCHANGED << request, toolCalls, toolResults, currentMessages, batches,
                  providerStartTime, firstResponseTime, toolsTime, nextModelStartTime,
                  stream, discVars, op, horizon, endpoint, thrown >>

\* part_001:519-588: the streaming call after the tool loop returned after d;
\* the StreamingHandle is built and returned
FinalStreamOpens(d) ==
  /\ pc = "awaitFinalStream"
  /\ pc' = "handle"
  /\ steps' = steps + 1
  /\ now' = now + d
  /\ result' = AfterLoopExecution(request.model, tokens, toolCalls, iterationCount,
                                  timeSegments, providerStartTime, now + d, modelTime,
                                  toolsTime, firstResponseTime)
  /\ stream' = OpenStream("afterLoop")
  /\ UNCHANGED << request, currentResponse, tokens, toolCalls, toolResults, currentMessages,
                  iterationCount, timeSegments, usedForcedTools, hasUsedForcedTool,
                  promises, modelCalls, responses, usageTotal, settleOrder, dispatched,
                  batches, providerStartTime, firstResponseTime, modelTime, toolsTime,
                  toolsStartTime, nextModelStartTime, discVars, op, horizon, endpoint, thrown >>

\* the consumer of the handle reads one more content chunk of the stream
StreamChunk ==
  /\ pc = "handle"
  /\ CanRead(stream)
  /\ stream' = ReadChunk(stream, "x")
  /\ UNCHANGED << request, pc, currentResponse, tokens, toolCalls, toolResults,
                  currentMessages, iterationCount, timeSegments, usedForcedTools,
                  hasUsedForcedTool, promises, result, modelCalls, responses, usageTotal,
                  settleOrder, dispatched, batches, steps, now, providerStartTime,
                  firstResponseTime, modelTime, toolsTime, toolsStartTime,
                  nextModelStartTime, discVars, op, horizon, endpoint, thrown >>

\* part_001:193-232, 522-545: the stream has no more events after d; the
\* normalizer runs the completion callback of the path on the content read and
\* the final usage
StreamEnds(usage, d) ==
  /\ pc = "handle"
  /\ CallbackDue(stream)
  /\ now' = now + d
  /\ stream' = EndStream(stream, usage)
  /\ usageTotal' = Reported(usageTotal, usage)
  /\ result' = IF stream.path = "fast"
               THEN FastPathOnComplete(result, request.model, stream.content, usage,
                                       providerStartTime, now + d)
               ELSE AfterLoopOnComplete(result, request.model, tokens, stream.content,
                                        usage)
  /\ UNCHANGED << request, pc, currentResponse, tokens, toolCalls, toolResults,
                  currentMessages, iterationCount, timeSegments, usedForcedTools,
                  hasUsedForcedTool, promises, modelCalls, responses,
                  settleOrder, dispatched, batches, steps, providerStartTime,
                  firstResponseTime, modelTime, toolsTime, toolsStartTime,
                  nextModelStartTime, discVars, op, horizon, endpoint, thrown >>

\* part_001:35-56: initialize is called; it returns at once on the client
\* side or without a base URL, and otherwise starts the fetch
InitializeStart(up) ==
  /\ op = "initialize"
  /\ dpc \in {"idle", "returned"}
  /\ inits < MaxInits
  /\ inits' = inits + 1
  /\ IF env.clientSide \/ ~env.baseUrl
     THEN dpc' = "returned" /\ upstream' = NoUpstream
     ELSE dpc' = "fetching" /\ upstream' = up
  /\ UNCHANGED << execVars, env, store, models, routeResponse, op, horizon, endpoint, thrown >>

\* part_001:56-61, 70-74: the fetch settles
InitializeFetched ==
  /\ op = "initialize"
  /\ dpc = "fetching"
  /\ IF upstream.fetch = "reject"
     THEN dpc' = "returned" /\ store' = InitializeOnFailure(store)
     ELSE IF ~Ok(upstream)
          THEN dpc' = "returned" /\ store' = << >>
          ELSE dpc' = "parsing" /\ UNCHANGED store
  /\ UNCHANGED << execVars, env, upstream, models, inits, routeResponse, op, horizon, endpoint, thrown >>

\* part_001:63-74: response.json() settles; the listing is mapped and
\* published, or the catch block runs
InitializeParsed ==
  /\ op = "initialize"
  /\ dpc = "parsing"
  /\ dpc' = "returned"
  /\ IF ParseThrows(upstream)
     THEN store' = InitializeOnFailure(store) /\ UNCHANGED models
     ELSE store' = Prefixed(upstream.ids) /\ models' = Prefixed(upstream.ids)
  /\ UNCHANGED << execVars, env, upstream, inits, routeResponse, op, horizon, endpoint, thrown >>

\* part_000:11-40: the route is called; it answers at once when the provider
\* is blacklisted or without a base URL, and otherwise starts the fetch
RouteStart(up) ==
  /\ op = "GET"
  /\ dpc = "idle"
  /\ IF env.providerBlacklisted \/ ~env.baseUrl
     THEN /\ dpc' = "returned"
          /\ routeResponse' = JsonResponse(<< >>)
          /\ upstream' = NoUpstream
     ELSE /\ dpc' = "fetching"
          /\ upstream' = up
          /\ UNCHANGED routeResponse
  /\ UNCHANGED << execVars, env, store, models, inits, op, horizon, endpoint, thrown >>

\* part_000:37-48, 61-68: the fetch settles
RouteFetched ==
  /\ op = "GET"
  /\ dpc = "fetching"
  /\ IF upstream.fetch = "reject" \/ ~Ok(upstream)
     THEN dpc' = "returned" /\ routeResponse' = JsonResponse(<< >>)
     ELSE dpc' = "parsing" /\ UNCHANGED routeResponse
  /\ UNCHANGED << execVars, env, upstream, store, models, inits, op, horizon, endpoint, thrown >>

\* part_000:50-68: response.json() settles; the listing is mapped, filtered
\* and returned, or the catch block answers
RouteParsed ==
  /\ op = "GET"
  /\ dpc = "parsing"
  /\ dpc' = "returned"
  /\ routeResponse' =
       IF ParseThrows(upstream) THEN JsonResponse(<< >>)
       ELSE JsonResponse(FilterBlacklistedModels(Prefixed(upstream.ids), env.blacklist))
  /\ UNCHANGED << execVars, env, upstream, store, models, inits, op, horizon, endpoint, thrown >>

Next ==
  \/ Begin
  \/ \E d \in Delays : FastStreamOpens(d)
  \/ \E failure \in endpoint.failures, d \in Delays : ModelCallFails(failure, d)
  \/ \E resp \in ResponsesTo(Len(responses) + 1), d \in Delays : InitialResponse(resp, d)
  \/ \E i \in 1..Len(promises), d \in Delays :
        \E outcome \in ToolOutcomes(promises[i].toolName) : ToolSettles(i, outcome, d)
  \/ Join
  \/ \E resp \in ResponsesTo(Len(responses) + 1), d \in Delays : LoopResponse(resp, d)
  \/ \E d \in Delays : FinalStreamOpens(d)
  \/ StreamChunk
  \/ \E usage \in endpoint.streamUsages, d \in Delays : StreamEnds(usage, d)
  \/ \E up \in Upstreams : InitializeStart(up)
  \/ InitializeFetched
  \/ InitializeParsed
  \/ \E up \in Upstreams : RouteStart(up)
  \/ RouteFetched
  \/ RouteParsed

Spec == Init /\ [][Next]_vars

\* the same operations under an advancing clock
SpecTimed == InitTimed /\ [][Next]_vars

(***************************************************************************)
(* Properties.                                                             *)
(***************************************************************************)
Terminal == {"thrown", "failed", "done", "handle"}

\* the number of segments of a type in a time-segment sequence
CountSegments(segs, type) == Cardinality({ i \in 1..Len(segs) : segs[i].type = type })

\* the number of consecutive responses, from the first one, that carry tool calls
LeadingToolResponses ==
  Cardinality({ n \in 1..Len(responses) : \A k \in 1..n : responses[k] # << >> })

\* the non-streaming model calls issued so far
BufferedCalls == { i \in 1..Len(modelCalls) : ~modelCalls[i].stream }

\* the longest batch of tool calls a response may carry
MaxBatchLen == CHOOSE n \in 0..8 :
  /\ \A shape \in BatchShapes : Len(shape) <= n
  /\ \E shape \in BatchShapes : Len(shape) = n

\* C1: on the buffered path, when the first N responses carry tool calls and
\* the next one carries none, with N below MAX_TOOL_ITERATIONS, the run awaited
\* exactly N tool batches, recorded exactly N+1 model segments, reports N+1
\* iterations and issued no model call after the response without tool calls.
C1_ToolLoopCounts ==
  (pc = "done" /\ LeadingToolResponses < MAX_TOOL_ITERATIONS) =>
     /\ batches = LeadingToolResponses
     /\ CountSegments(result.timeSegments, "model") = LeadingToolResponses + 1
     /\ result.iterations = LeadingToolResponses + 1
     /\ Len(responses) = LeadingToolResponses + 1
     /\ Len(modelCalls) = LeadingToolResponses + 1

C1_Witness ==
  /\ pc = "done"
  /\ LeadingToolResponses = 1
  /\ LeadingToolResponses < MAX_TOOL_ITERATIONS
  /\ batches = 1

\* the most steps a run can take: the prefix, the responses, and per pass the
\* pending tool calls and the barrier, then the final streaming call
StepBound == 1 + (MAX_TOOL_ITERATIONS + 1) + MAX_TOOL_ITERATIONS * (MaxBatchLen + 1) + 1

\* C2: whatever the model and the tools answer, the run ends: a run that has
\* not ended can always take a step and no run takes more than StepBound
\* steps; the loop runs at most MAX_TOOL_ITERATIONS passes, at most
\* MAX_TOOL_ITERATIONS + 1 non-streaming model calls are issued, and the tool
\* calls of the response that hit the cap are never started.
C2_BoundedLoop ==
  /\ iterationCount <= MAX_TOOL_ITERATIONS
  /\ batches <= MAX_TOOL_ITERATIONS
  /\ Cardinality(BufferedCalls) <= MAX_TOOL_ITERATIONS + 1
  /\ steps <= StepBound
  /\ (op = "executeRequest" /\ pc \notin Terminal) => ENABLED Next
  /\ \A n \in 1..Len(responses) :
       n > MAX_TOOL_ITERATIONS =>
         \A k \in 1..Len(responses[n]) : responses[n][k].id \notin dispatched

C2_Witness ==
  /\ pc \in {"done", "handle"}
  /\ iterationCount = MAX_TOOL_ITERATIONS
  /\ Len(responses) = MAX_TOOL_ITERATIONS + 1
  /\ responses[MAX_TOOL_ITERATIONS + 1] # << >>
  /\ Cardinality(BufferedCalls) = MAX_TOOL_ITERATIONS + 1

\* C3: a request with zero tool definitions, streaming or not and whatever the
\* responses contain, returns a result that reports iterations = 1 and has no
\* time segment of type tool.
C3_NoToolsOneIteration ==
  (Len(request.tools) = 0 /\ pc \in {"done", "handle"}) =>
     /\ result.iterations = 1
     /\ CountSegments(result.timeSegments, "tool") = 0

\* C4: when the tool loop has ended, the token counts (input, output, total)
\* are the sums of the usage reported by every response of the run, the first
\* one and the one that ended the loop included, an absent usage counting as
\* zero.
C4_TokensAreUsageSums ==
  /\ pc \in {"done", "awaitFinalStream"} => tokens = usageTotal
  /\ pc = "done" => result.tokens = usageTotal

C4_Witness ==
  /\ pc = "done"
  /\ Len(responses) = 3
  /\ usageTotal.input = 3
  /\ usageTotal.total = 3
  /\ result.tokens = usageTotal

\* the forced tools that appeared in the tool calls of the responses to the
\* calls 1..i that carried a forced tool choice
UsedUpTo(i) ==
  { t \in Range(ForcedTools(request)) :
      \E j \in 1..i : /\ IsObjectChoice(modelCalls[j].tool_choice)
                      /\ t \in Range(CallNames(responses[j])) }

\* the first forced tool outside a set, or the automatic choice
FirstRemaining(used) ==
  LET remaining == SelectSeqBy(ForcedTools(request), Range(ForcedTools(request)) \ used)
  IN  IF remaining = << >> THEN ChoiceAuto ELSE ChoiceForce(remaining[1])

\* call i forced a tool and the response to it calls that tool
ForcedToolCalled(i) ==
  /\ i <= Len(responses)
  /\ IsObjectChoice(modelCalls[i].tool_choice)
  /\ modelCalls[i].tool_choice.name \in Range(CallNames(responses[i]))

\* C5 as stated: after a call that forced a tool and a response that calls it,
\* the next model call, whichever it is, targets the first forced tool not yet
\* used, or 'auto' when none remains.
C5_NextCallAdvances ==
  \A i \in 1..Len(modelCalls) :
    (ForcedToolCalled(i) /\ i + 1 <= Len(modelCalls)) =>
       modelCalls[i + 1].tool_choice = FirstRemaining(UsedUpTo(i))

\* C5 (amended): after a call that forced a tool and a response that calls it,
\* the next model call of the tool loop targets the first forced tool not yet
\* used, or 'auto' when none remains; with a single forced tool called in the
\* first response the second call carries 'auto'.
C5_NextLoopCallAdvances ==
  /\ \A i \in 1..Len(modelCalls) :
       (ForcedToolCalled(i) /\ i + 1 <= Len(modelCalls) /\ ~modelCalls[i + 1].stream) =>
          modelCalls[i + 1].tool_choice = FirstRemaining(UsedUpTo(i))
  /\ (Len(ForcedTools(request)) = 1 /\ ForcedToolCalled(1) /\ Len(modelCalls) >= 2
        /\ ~modelCalls[2].stream)
       => modelCalls[2].tool_choice = ChoiceAuto

C5_Witness ==
  /\ Len(ForcedTools(request)) = 2
  /\ Len(modelCalls) = 3
  /\ ForcedToolCalled(1)
  /\ ForcedToolCalled(2)
  /\ modelCalls[2].tool_choice = ChoiceForce("b")
  /\ modelCalls[3].tool_choice = ChoiceAuto
  /\ ~modelCalls[3].stream

\* the settled tool calls of the pass other than those that resolved to null
Executed == { i \in 1..Len(promises) : ~promises[i].isNull /\ promises[i].status # "pending" }

\* the promises of the pass whose tool call threw, in JSON.parse or in executeTool
Threw == { i \in 1..Len(promises) : promises[i].error \in {"thrown", "SyntaxError"} }

\* the tool-call records the last pass appended
BatchRecords ==
  SubSeq(toolCalls, Len(toolCalls) - Cardinality(Executed) + 1, Len(toolCalls))

\* the tool messages of the history that answer a tool call id
ToolMessagesFor(msgs, id) ==
  { k \in 1..Len(msgs) : msgs[k].role = "tool" /\ msgs[k].tool_call_id = id }

C7_SettleAllBarrier ==
  /\ pc = "awaitTools" =>
       /\ Len(promises) = Len(currentResponse.tool_calls)
       /\ \A k \in 1..Len(currentResponse.tool_calls) :
            currentResponse.tool_calls[k].id \in dispatched
  /\ pc = "awaitLoop" =>
       /\ Len(promises) = Len(currentResponse.tool_calls)
       /\ \A i \in 1..Len(promises) : promises[i].status # "pending"
       /\ Range(settleOrder) = 1..Len(promises)
       /\ batches = Len(modelCalls) - 1

C7_Witness ==
  /\ pc = "awaitLoop"
  /\ Len(promises) = 2
  /\ settleOrder = << 2, 1 >>
  /\ promises[1].error = "thrown"

\* the tool names of the promises that resolved to a value, taken in an order
RECURSIVE ExecutedNames(_)
ExecutedNames(order) ==
  IF order = << >> THEN << >>
  ELSE (IF Head(order) \in Executed THEN << promises[Head(order)].toolName >> ELSE << >>)
       \o ExecutedNames(Tail(order))

RECURSIVE RecordNames(_)
RecordNames(recs) ==
  IF recs = << >> THEN << >> ELSE << Head(recs).name >> \o RecordNames(Tail(recs))

\* the tool segments the last pass appended
BatchSegments ==
  SubSeq(timeSegments, Len(timeSegments) - Cardinality(Executed) + 1, Len(timeSegments))

\* C8 as stated: the tool segments and tool-call records of a batch are
\* appended in the order in which the tool calls settled.
C8_CompletionOrder ==
  pc = "awaitLoop" =>
    /\ RecordNames(BatchRecords) = ExecutedNames(settleOrder)
    /\ RecordNames(BatchSegments) = ExecutedNames(settleOrder)

\* C8 (amended): the tool segments and tool-call records of a batch are
\* appended in the order in which the tool calls were dispatched (the order of
\* the model's response), whatever the order in which they settled.
C8_DispatchOrder ==
  pc = "awaitLoop" =>
    /\ RecordNames(BatchRecords) = ExecutedNames([i \in 1..Len(promises) |-> i])
    /\ RecordNames(BatchSegments) = ExecutedNames([i \in 1..Len(promises) |-> i])
    /\ \A k \in 1..Len(BatchSegments) : BatchSegments[k].type = "tool"

C8_Witness ==
  /\ pc = "awaitLoop"
  /\ settleOrder = << 2, 1 >>
  /\ RecordNames(BatchRecords) = << "a", "b" >>
  /\ RecordNames(BatchSegments) = << "a", "b" >>

\* C9: in the messages of every model call, each assistant message with tool
\* calls has null content and is followed by exactly one tool message for each
\* of its tool call ids, also for a call that failed or named an undefined tool.
C9_EveryCallAnswered ==
  \A c \in 1..Len(modelCalls) :
    LET msgs == modelCalls[c].messages
    IN  \A m \in 1..Len(msgs) :
          msgs[m].role = "assistant" =>
            /\ msgs[m].content = "null"
            /\ \A k \in 1..Len(msgs[m].tool_calls) :
                 /\ Cardinality(ToolMessagesFor(msgs, msgs[m].tool_calls[k].id)) = 1
                 /\ \A t \in ToolMessagesFor(msgs, msgs[m].tool_calls[k].id) : t > m

\* the request asks for streaming and no tools are active
StreamingWithoutActiveTools ==
  /\ request.stream
  /\ \/ Len(request.tools) = 0
     \/ PreparedTools(request).tools = << >>
     \/ PreparedTools(request).toolChoice = ChoiceUndefined

\* C10: when the request asks for streaming and no tools are active, exactly
\* one model call is issued, a streaming call without tools, no tool call is
\* started and no loop pass runs, and the run returns a StreamingHandle
\* (unless that call fails); otherwise the first model call is non-streaming.
C10_FastPath ==
  Len(modelCalls) >= 1 =>
    /\ StreamingWithoutActiveTools =>
         /\ Len(modelCalls) = 1
         /\ modelCalls[1].stream
         /\ modelCalls[1].tools = << >>
         /\ modelCalls[1].tool_choice = ChoiceUndefined
         /\ dispatched = {} /\ batches = 0 /\ iterationCount = 0 /\ responses = << >>
         /\ pc \in {"awaitFastStream", "handle", "failed"}
         /\ pc = "handle" => result.kind = "handle"
    /\ ~StreamingWithoutActiveTools => ~modelCalls[1].stream

C10_Witness ==
  /\ pc = "handle"
  /\ request.stream
  /\ Len(request.tools) = 1
  /\ ~HasActiveTools(request)
  /\ Len(modelCalls) = 1
  /\ modelCalls[1].stream
  /\ result.kind = "handle"

(***************************************************************************)
(* Streaming after the tool loop, failures, telemetry.                     *)
(***************************************************************************)
\* the streaming model calls issued after a buffered one
FinalStreamCalls == { i \in 2..Len(modelCalls) : modelCalls[i].stream }

\* the handle's tokens and cost are the loop's plus the stream's
StreamFolded ==
  LET u == stream.usage
      m == request.model
  IN  /\ result.tokens = [input |-> tokens.input + u.prompt_tokens,
                          output |-> tokens.output + u.completion_tokens,
                          total |-> tokens.total + u.total_tokens]
      /\ result.cost = AddCost(CalculateCost(m, tokens.input, tokens.output),
                               CalculateCost(m, u.prompt_tokens, u.completion_tokens))

\* C11: when the request asks for streaming and the loop awaited at least one
\* tool batch, exactly one streaming call follows the loop, with tool_choice
\* 'auto' and the loop's messages, and once its stream has ended the handle's
\* tokens and cost are the loop's plus the stream's; when the loop awaited no
\* tool batch, no streaming call follows a buffered call.
C11_FinalStreamingCall ==
  /\ (request.stream /\ batches >= 1 /\ pc = "handle") =>
        /\ Cardinality(FinalStreamCalls) = 1
        /\ modelCalls[Len(modelCalls)].stream
        /\ modelCalls[Len(modelCalls)].tool_choice = ChoiceAuto
        /\ modelCalls[Len(modelCalls)].messages = currentMessages
        /\ stream.ended => StreamFolded
  /\ batches = 0 => FinalStreamCalls = {}

\* the part of C11 about the runs that awaited a tool batch
C11_AfterToolBatch ==
  (request.stream /\ batches >= 1 /\ pc = "handle") =>
     /\ Cardinality(FinalStreamCalls) = 1
     /\ modelCalls[Len(modelCalls)].stream
     /\ modelCalls[Len(modelCalls)].tool_choice = ChoiceAuto
     /\ modelCalls[Len(modelCalls)].messages = currentMessages
     /\ stream.ended => StreamFolded

C13_FailureCarriesProgress ==
  (pc = "failed" /\ Len(responses) >= 1) =>
     /\ {"tokens", "timeSegments"} \subseteq result.fields
     /\ result.tokens = tokens
     /\ result.timeSegments = timeSegments

\* C14: after the initial response, after each loop response and after the
\* stream completion callback, the running token counts, and the counts of the
\* result once there is one, satisfy total = input + output.
C14_TotalIsInputPlusOutput ==
  /\ tokens.total = tokens.input + tokens.output
  /\ "tokens" \in result.fields =>
        result.tokens.total = result.tokens.input + result.tokens.output

\* the cost of the tokens reported by every response of the run
CostOfRun == CalculateCost(request.model, usageTotal.input, usageTotal.output)

\* C15: every completed request (a buffered result, or a handle whose stream
\* has been drained, on either streaming path) reports a cost breakdown, and
\* it is the cost of the model id and of the input and output tokens summed
\* over all the responses of the run.
C15_CostOfSummedTokens ==
  (pc = "done" \/ (pc = "handle" /\ stream.ended)) =>
     /\ "cost" \in result.fields
     /\ result.cost = CostOfRun

\* the part of C15 about the two streaming paths
C15_DrainedHandleCost ==
  (pc = "handle" /\ stream.ended) =>
     /\ "cost" \in result.fields
     /\ result.cost = CostOfRun

\* the tokens and the cost a handle starts with: nothing on the fast path, the
\* tool loop's after the loop
InitialHandleTokens == IF stream.path = "fast" THEN ZeroTokens ELSE tokens
InitialHandleCost ==
  IF stream.path = "fast" THEN ZeroCost
  ELSE CalculateCost(request.model, tokens.input, tokens.output)

\* the stream of the handle can end now
StreamCanEnd == ENABLED (\E usage \in endpoint.streamUsages : StreamEnds(usage, 0))

\* C16: for a returned handle the completion callback runs at most once, and
\* it has run exactly when the stream has ended; a stream that has not ended
\* can end whatever number of content chunks it delivered, zero included;
\* until then the ExecutionResult holds its initial values (empty content, the
\* tokens and cost of the tool loop only); afterwards it holds the content
\* read and the initial tokens and cost plus those of the stream's usage.
C16_CallbackOnceAtEnd ==
  pc = "handle" =>
    /\ stream.open
    /\ stream.callbacks = IF stream.ended THEN 1 ELSE 0
    /\ ~stream.ended =>
          /\ StreamCanEnd
          /\ result.content = ""
          /\ result.tokens = InitialHandleTokens
          /\ result.cost = InitialHandleCost
    /\ stream.ended =>
          /\ ~ENABLED Next
          /\ result.content = stream.content
          /\ result.tokens = Reported(InitialHandleTokens, stream.usage)
          /\ result.cost = AddCost(InitialHandleCost,
                                   CalculateCost(request.model, stream.usage.prompt_tokens,
                                                 stream.usage.completion_tokens))

\* a usage-only stream after a tool loop that counted tokens
C16_Witness ==
  /\ pc = "handle"
  /\ stream.ended
  /\ stream.chunks = 0
  /\ stream.callbacks = 1
  /\ stream.path = "afterLoop"
  /\ batches >= 1
  /\ tokens.input > 0

(***************************************************************************)
(* Model discovery.                                                        *)
(***************************************************************************)
\* the listing endpoint was asked and answered with a listing of model ids
Listed == upstream.fetch = "response" /\ upstream.status = 200 /\ upstream.body = "list"

\* the upstream ids under the provider's namespace, without the blacklisted ones
RECURSIVE Namespaced(_, _)
Namespaced(ids, blacklist) ==
  IF ids = << >> THEN << >>
  ELSE (IF ("litellm/" \o Head(ids)) \in blacklist THEN << >>
        ELSE << "litellm/" \o Head(ids) >>)
       \o Namespaced(Tail(ids), blacklist)

\* C17: the GET /models route always answers, with a success status and a
\* list of models: the empty list when the provider is blacklisted, when no
\* base URL is configured, when the fetch fails, when the upstream status is
\* not a success (503) and when the body is not a listing; otherwise the
\* upstream ids, each prefixed with 'litellm/', without the blacklisted ones.
C17_RouteNeverFails ==
  op = "GET" =>
    /\ dpc # "returned" => ENABLED Next
    /\ dpc = "returned" =>
          /\ routeResponse.kind = "json"
          /\ routeResponse.status \in 200..299
          /\ routeResponse.models =
                IF env.providerBlacklisted \/ ~env.baseUrl \/ ~Listed THEN << >>
                ELSE Namespaced(upstream.ids, env.blacklist)

\* a listing of two ids of which one is blacklisted
C17_Witness ==
  /\ op = "GET"
  /\ dpc = "returned"
  /\ upstream.ids = << "m1", "m2" >>
  /\ env.blacklist = {"litellm/m1"}
  /\ routeResponse.models = << "litellm/m2" >>

\* the upstream answered 503 and the route answered 200 with no model
C17_Unavailable ==
  /\ op = "GET"
  /\ dpc = "returned"
  /\ upstream.status = 503
  /\ routeResponse = JsonResponse(<< >>)

\* the last call of initialize asked the listing endpoint and got no listing
DiscoveryFailed == upstream.fetch # "none" /\ ~Listed

\* C18: initialize always returns, and when its fetch failed (it rejected, or
\* the body was not a listing) or answered with a non-success status, the
\* list published in the store for the provider is empty once it has returned.
C18_FailureEmptiesTheList ==
  op = "initialize" =>
    /\ dpc \in {"fetching", "parsing"} => ENABLED Next
    /\ (dpc = "returned" /\ DiscoveryFailed) => store = << >>

\* the part of C18 that does not depend on what the store held before
C18_UnavailableEmptiesTheList ==
  op = "initialize" =>
    /\ dpc \in {"fetching", "parsing"} => ENABLED Next
    /\ (dpc = "returned" /\ upstream.fetch = "response" /\ ~Ok(upstream)) => store = << >>

\* C19 as claimed: without a base URL no operation throws; initialize, the
\* GET /models route and executeRequest each degrade to an empty capability.
C19_NoBaseUrlNeverThrows ==
  ~env.baseUrl =>
    /\ op = "executeRequest" => pc # "thrown" /\ result.kind # "configError"
    /\ op = "initialize" => store = << >>
    /\ (op = "GET" /\ dpc = "returned") => routeResponse = JsonResponse(<< >>)

\* C19, amended: without a base URL initialize returns without fetching and
\* publishes nothing, the GET /models route answers {models: []} without
\* fetching, and executeRequest throws the configuration error before it
\* issues any model call or starts any tool.
C19_NoBaseUrlDegradesOrRefuses ==
  ~env.baseUrl =>
    /\ upstream = NoUpstream
    /\ dpc \in {"idle", "returned"}
    /\ (op = "executeRequest" /\ pc # "start") =>
          /\ pc = "thrown"
          /\ result = ConfigError
          /\ modelCalls = << >>
          /\ dispatched = {}
    /\ op = "initialize" => store = << >> /\ models = << >>
    /\ (op = "GET" /\ dpc = "returned") => routeResponse = JsonResponse(<< >>)

C19_Witness ==
  /\ ~env.baseUrl
  /\ op = "executeRequest"
  /\ request.stream
  /\ Len(request.tools) > 0
  /\ pc = "thrown"
  /\ result.message = "LITELLM_BASE_URL is required for LiteLLM provider"

\* C20: once the stream of a handle has ended, on the fast path and after the
\* tool loop alike, the end time of the ExecutionResult is the time the stream
\* ended and its duration runs from the start of the run to that time.
C20_TimingFinalized ==
  (pc = "handle" /\ stream.ended) =>
     /\ result.endTime = now
     /\ result.duration = now - providerStartTime

\* the part of C20 about the fast path
C20_FastPathTimingFinalized ==
  (pc = "handle" /\ stream.ended /\ stream.path = "fast") =>
     /\ result.endTime = now
     /\ result.duration = now - providerStartTime
     /\ result.timeSegments[1].endTime = now

(***************************************************************************)
(* Message history, the request, forced tools, records and timing sums.    *)
(***************************************************************************)
\* p is a prefix of q
IsPrefix(p, q) == Len(p) <= Len(q) /\ SubSeq(q, 1, Len(p)) = p

\* msgs starts with the system prompt, if there is one, then the context, if
\* there is one, then the caller's messages
StartsWithInitialMessages(msgs) ==
  LET n0 == IF request.systemPrompt # "" THEN 1 ELSE 0
      n1 == IF request.context # "" THEN 1 ELSE 0
  IN  /\ Len(msgs) >= n0 + n1 + Len(request.messages)
      /\ n0 = 1 => msgs[1].role = "system" /\ msgs[1].content = request.systemPrompt
      /\ n1 = 1 => msgs[n0 + 1].role = "user" /\ msgs[n0 + 1].content = request.context
      /\ SubSeq(msgs, n0 + n1 + 1, n0 + n1 + Len(request.messages)) = request.messages

\* C21: the messages of every model call of a run start with the system
\* prompt (if present), then the context (if present), then the caller's
\* messages in their order, and the messages of each later call are those of
\* the call before it with messages added at the end only.
C21_MessagesOnlyGrow ==
  \A i \in 1..Len(modelCalls) :
     /\ StartsWithInitialMessages(modelCalls[i].messages)
     /\ i > 1 => IsPrefix(modelCalls[i - 1].messages, modelCalls[i].messages)

\* three calls with a system prompt and a context, the last one a streaming
\* call on a history that a tool pass extended
C21_Witness ==
  /\ request.systemPrompt = "sys"
  /\ request.context = "ctx"
  /\ Len(modelCalls) >= 3
  /\ modelCalls[Len(modelCalls)].stream
  /\ Len(modelCalls[2].messages) > Len(modelCalls[1].messages)

C23_DiscoveryPublishesFiltered ==
  op = "initialize" =>
    /\ (env.clientSide \/ ~env.baseUrl) =>
          upstream = NoUpstream /\ store = << >> /\ dpc \in {"idle", "returned"}
    /\ (dpc = "returned" /\ Listed) => store = Namespaced(upstream.ids, env.blacklist)

\* the part of C23 that holds: the guards, and the list published is the
\* upstream ids prefixed, blacklisted or not
C23_DiscoveryPublishesPrefixed ==
  op = "initialize" =>
    /\ (env.clientSide \/ ~env.baseUrl) =>
          upstream = NoUpstream /\ store = << >> /\ dpc \in {"idle", "returned"}
    /\ (dpc = "returned" /\ Listed) => store = Namespaced(upstream.ids, {})

\* C24: once a forced tool has been recorded as used, no later model call of
\* the run carries a tool_choice that forces that tool again, whatever the
\* responses were.
C24_UsedToolNotForcedAgain ==
  [][ (op = "executeRequest" /\ Len(modelCalls') > Len(modelCalls)) =>
        \A t \in Range(usedForcedTools) :
          modelCalls'[Len(modelCalls')].tool_choice # ChoiceForce(t) ]_vars

\* the part of C24 that holds: the call that follows a response in which a
\* forced tool was used forces no tool recorded as used
C24_NotForcedRightAfterUse ==
  [][ (op = "executeRequest" /\ Len(modelCalls') > Len(modelCalls) /\ hasUsedForcedTool) =>
        \A t \in Range(usedForcedTools) :
          modelCalls'[Len(modelCalls')].tool_choice # ChoiceForce(t) ]_vars

\* the tool TimeSegments among segs
RECURSIVE ToolSegments(_)
ToolSegments(segs) ==
  IF segs = << >> THEN << >>
  ELSE (IF Head(segs).type = "tool" THEN << Head(segs) >> ELSE << >>) \o ToolSegments(Tail(segs))

\* the records with success = true among recs
RECURSIVE Successful(_)
Successful(recs) ==
  IF recs = << >> THEN << >>
  ELSE (IF Head(recs).success THEN << Head(recs) >> ELSE << >>) \o Successful(Tail(recs))

\* the tool calls of the first k responses, in order
RECURSIVE CallsOfBatches(_)
CallsOfBatches(k) == IF k = 0 THEN << >> ELSE CallsOfBatches(k - 1) \o responses[k]

\* the names of the calls of tcs that name a tool of request.tools, and, with
\* unparsedToo, of those whose arguments do not parse
RECURSIVE NamesKept(_, _)
NamesKept(tcs, unparsedToo) ==
  IF tcs = << >> THEN << >>
  ELSE (IF Head(tcs).name \in Range(MapIds(request.tools)) \/ (unparsedToo /\ ~Head(tcs).argsOk)
        THEN << Head(tcs).name >> ELSE << >>) \o NamesKept(Tail(tcs), unparsedToo)

NamesOfRecords == [i \in 1..Len(toolCalls) |-> toolCalls[i].name]
NamesOfToolSegments == [i \in 1..Len(ToolSegments(timeSegments)) |-> ToolSegments(timeSegments)[i].name]

\* one record per tool segment, one raw output per successful record
C25_CountsAgree ==
  /\ Len(toolCalls) = Len(ToolSegments(timeSegments))
  /\ Len(toolResults) = Len(Successful(toolCalls))

\* C25: at every point of the buffered path there are as many tool-call
\* records as tool TimeSegments and as many raw tool outputs as successful
\* records, and a call of a tool that is not among the request's tool
\* definitions adds neither a record nor a segment: the records and the tool
\* segments are those of the calls of defined tools.
C25_UndefinedToolAddsNothing ==
  op = "executeRequest" =>
    /\ C25_CountsAgree
    /\ NamesOfRecords = NamesKept(CallsOfBatches(batches), FALSE)
    /\ NamesOfToolSegments = NamesKept(CallsOfBatches(batches), FALSE)

\* C25 amended: the counts agree, and a call of an undefined tool adds
\* neither a record nor a segment when its arguments parse; when they do not
\* parse it adds a failed record and a tool segment, as any call does whose
\* arguments do not parse.
C25_UndefinedToolParsedAddsNothing ==
  op = "executeRequest" =>
    /\ C25_CountsAgree
    /\ NamesOfRecords = NamesKept(CallsOfBatches(batches), TRUE)
    /\ NamesOfToolSegments = NamesKept(CallsOfBatches(batches), TRUE)
    /\ \A i \in 1..Len(toolCalls) :
          toolCalls[i].name \notin Range(MapIds(request.tools)) => ~toolCalls[i].success

\* a batch with two calls of an undefined tool was processed: the one with
\* unparseable arguments left a record, the other left nothing
C25_Witness ==
  /\ op = "executeRequest" /\ batches >= 1
  /\ \E i \in 1..Len(toolCalls) : toolCalls[i].name = "ghost"
  /\ Len(toolCalls) < Len(CallsOfBatches(batches))
  /\ toolResults # << >>

\* the model TimeSegments among segs
RECURSIVE ModelSegments(_)
ModelSegments(segs) ==
  IF segs = << >> THEN << >>
  ELSE (IF Head(segs).type = "model" THEN << Head(segs) >> ELSE << >>) \o ModelSegments(Tail(segs))

RECURSIVE SumOfDurations(_)
SumOfDurations(segs) ==
  IF segs = << >> THEN 0 ELSE Head(segs).duration + SumOfDurations(Tail(segs))

\* the wall-clock durations of the tool batches added up: a batch starts when
\* a response with tool calls has arrived and ends when the next model call
\* is issued, so it lasts from the end of one model segment to the start of
\* the next
RECURSIVE BatchesWallClock(_)
BatchesWallClock(modelSegs) ==
  IF Len(modelSegs) <= 1 THEN 0
  ELSE (modelSegs[2].startTime - modelSegs[1].endTime) + BatchesWallClock(Tail(modelSegs))

\* C26: in every buffered result the model time is the sum of the durations
\* of the model TimeSegments, the first-response latency is the duration of
\* the first model TimeSegment, there are as many model TimeSegments as
\* reported iterations, and the tools time is the sum of the wall-clock
\* durations of the tool batches.
C26_TimingSums ==
  (op = "executeRequest" /\ result.kind = "buffered") =>
    LET ms == ModelSegments(result.timeSegments)
    IN  /\ result.modelTime = SumOfDurations(ms)
        /\ Len(ms) >= 1
        /\ result.firstResponseTime = ms[1].duration
        /\ Len(ms) = result.iterations
        /\ result.toolsTime = BatchesWallClock(ms)

\* a buffered result after a batch of two tools that ran side by side: the
\* tools time is not the sum of the two tool segments
C26_Witness ==
  /\ op = "executeRequest" /\ result.kind = "buffered"
  /\ result.iterations >= 2
  /\ result.modelTime > 0
  /\ result.toolsTime > 0
  /\ result.toolsTime # SumOfDurations(ToolSegments(result.timeSegments))

====
